---- MODULE Spec2Model ----
(***************************************************************************)
(* Model of the DESVU discrete-event simulation kernel:                    *)
(*   desvu::Event      (event.h, reproduced at the end of README.md)       *)
(*   desvu::detail::ScheduledEvent and desvu::Simulator (core/simulator.h) *)
(*   desvu::TimeWeightedStats and desvu::EventStats                        *)
(*                                        (stats/time_weighted_stats.h)    *)
(* Times, delays and observed values are modelled as integers, a quotient  *)
(* as the pair of its numerator and denominator.                           *)
(***************************************************************************)
EXTENDS Integers, Naturals, Sequences, FiniteSets, TLC

\* ---------------------------------------------------------------- bounds
MaxEvents == 2     \* Event objects constructed
MaxSched  == 2     \* schedule() calls (values of event_counter)
MaxDelay  == 2     \* largest delay given to the Event constructor
MaxUntil  == 1     \* largest bounded `until` passed to run()
MaxRuns   == 2     \* run() calls
MaxTime    == 2    \* largest time / end time given to TimeWeightedStats
MaxValue   == 1    \* largest magnitude of a recorded value
MaxUpdates == 2    \* successful TimeWeightedStats::Update calls
MaxObs     == 4    \* EventStats::Add calls
MaxSample  == 32   \* observations of a long sample (above the 30 / 31 split)
MaxVaried  == 3    \* leading observations of a long sample that vary
MaxAdds    == 3    \* StatsCollector::Add calls
MaxSCTime  == 1    \* largest time / end time given to a StatsCollector
MaxLogSched == 3   \* schedule() calls on a simulator constructed with either log_events
MaxLogRuns == 1    \* run() calls of a simulator constructed with either log_events
MaxRecSched == 3   \* schedule() calls of a simulator whose actions record statistics
MaxRecRuns  == 3   \* run() calls of a simulator whose actions record statistics

Delays == 0..MaxDelay
Untils == (-1)..MaxUntil        \* -1.0 is the documented "unlimited"
LogDelays == {1, MaxDelay}      \* delays of the events of a simulator that may log
LogUntils == {-1, MaxUntil}     \* `until` of its runs
RecDelays == {0, MaxDelay}      \* delays of the events whose actions record statistics
RecUntils == {-1, MaxUntil}     \* `until` of the runs of such events
Times    == (-1)..MaxTime       \* `time` arguments of Update
EndTimes == (-1)..(MaxTime + 1) \* `end_time` arguments of Average
Values   == (-MaxValue)..MaxValue
Names    == {"queue", "wait"}      \* names of statistics
SCTimes  == (-1)..MaxSCTime        \* `time` / `end_time` given to a StatsCollector
SCValues == {0, 1}                 \* values given to a StatsCollector

VARIABLES
  time,           \* Simulator::time
  event_counter,  \* Simulator::event_counter
  event_queue,    \* Simulator::event_queue, as the set of its entries
  events,         \* the Event objects alive, by allocation index
  pc,             \* "idle": outside run(); "action": inside event->action(*this)
  until,          \* argument of the run() call in progress / last made
  cur,            \* id of the entry whose action is executing, -1 if none
  hist,           \* per sequence id: what schedule() enqueued and what became of it
  executed,       \* log of action invocations, in order
  call,           \* what the last run() call was given and how it returned
  log_events,     \* Simulator::log_events
  cout,           \* the lines run() has written to std::cout, in order
  tw,             \* a TimeWeightedStats object
  tw_log,         \* the (time, value) pairs of its successful Update calls
  tw_out,         \* the last call made on tw and its outcome
  es,             \* an EventStats object (its observations_)
  es_out,         \* the last call made on es and its outcome
  ci_out,         \* the last ConfidenceInterval95 / Report call on es
  sc,             \* a StatsCollector object (its two maps)
  sc_added,       \* per name: the Add(name, value) calls made on sc
  sc_out          \* the last call made on sc and its outcome

simVars == <<time, event_counter, event_queue, events, pc, until, cur,
             hist, executed, call, log_events, cout>>

twVars == <<tw, tw_log, tw_out>>

esVars == <<es, es_out, ci_out>>

scVars == <<sc, sc_added, sc_out>>

statsVars == <<twVars, esVars, scVars>>

vars == <<simVars, statsVars>>

\* ------------------------------------------------------- Event (event.h)
\* Event::Event(double delay) : delay(delay), time(0.0), cancelled(false)
Event(delay) == [delay |-> delay, time |-> 0, cancelled |-> FALSE]

\* Event::cancel() { cancelled = true; }
cancel(ev) == [ev EXCEPT !.cancelled = TRUE]

\* ------------------------------------------- detail::ScheduledEvent
ScheduledEvent(t, i, e) == [time |-> t, id |-> i, event |-> e]

NoEntry == ScheduledEvent(-1, -1, 0)

\* ScheduledEvent::operator< : a has lower priority than b
LessMutTie(a, b) ==
  IF a.time # b.time THEN a.time > b.time ELSE a.id < b.id

LessMutTime(a, b) == a.id > b.id

LessMutLoose(a, b) == a.time >= b.time

Less(a, b) ==
  IF a.time # b.time THEN a.time > b.time ELSE a.id > b.id

\* std::priority_queue::top(): the entry no other entry has priority over
Top(q) == CHOOSE x \in q : \A y \in q \ {x} : Less(y, x)

\* ------------------------------------------------------------ Simulator
\* Simulator::now()
now == time

\* The while loop of Simulator::run from its head up to the point where it
\* either returns or calls event->action(*this).  q: the queue, t: time,
\* u: until, sk: ids of cancelled entries discarded on the way.
RECURSIVE RunLoop(_, _, _, _)
RunLoopMutKeep(q, t, u, sk) ==
  IF q = {} THEN
    [queue |-> q, time |-> t, out |-> "empty", popped |-> NoEntry, skipped |-> sk]
  ELSE
    LET top  == Top(q)
        rest == q \ {top}
    IN  IF u >= 0 /\ top.time > u THEN
          [queue |-> rest, time |-> t, out |-> "limit", popped |-> top, skipped |-> sk]
        ELSE IF events[top.event].cancelled THEN
          RunLoop(rest, t, u, sk \cup {top.id})
        ELSE
          [queue |-> rest, time |-> top.time, out |-> "action", popped |-> top,
           skipped |-> sk]

RunLoopMutCancel(q, t, u, sk) ==
  IF q = {} THEN
    [queue |-> q, time |-> t, out |-> "empty", popped |-> NoEntry, skipped |-> sk]
  ELSE
    LET top  == Top(q)
        rest == q \ {top}
    IN  IF u >= 0 /\ top.time > u THEN
          [queue |-> rest, time |-> u, out |-> "limit", popped |-> top, skipped |-> sk]
        ELSE
          [queue |-> rest, time |-> top.time, out |-> "action", popped |-> top,
           skipped |-> sk]

RunLoopMutClock(q, t, u, sk) ==
  IF q = {} THEN
    [queue |-> q, time |-> t, out |-> "empty", popped |-> NoEntry, skipped |-> sk]
  ELSE
    LET top  == Top(q)
        rest == q \ {top}
    IN  IF u >= 0 /\ top.time > u THEN
          [queue |-> rest, time |-> u, out |-> "limit", popped |-> top, skipped |-> sk]
        ELSE IF events[top.event].cancelled THEN
          RunLoop(rest, t, u, sk \cup {top.id})
        ELSE
          [queue |-> rest, time |-> t, out |-> "action", popped |-> top,
           skipped |-> sk]

RunLoopMutRepeat(q, t, u, sk) ==
  IF q = {} THEN
    [queue |-> q, time |-> t, out |-> "empty", popped |-> NoEntry, skipped |-> sk]
  ELSE
    LET top  == Top(q)
        rest == q \ {top}
    IN  IF u >= 0 /\ top.time > u THEN
          [queue |-> rest, time |-> u, out |-> "limit", popped |-> top, skipped |-> sk]
        ELSE IF events[top.event].cancelled THEN
          RunLoop(rest, t, u, sk \cup {top.id})
        ELSE
          [queue |-> q, time |-> top.time, out |-> "action", popped |-> top,
           skipped |-> sk]

RunLoopMutSkip(q, t, u, sk) ==
  IF q = {} THEN
    [queue |-> q, time |-> t, out |-> "empty", popped |-> NoEntry, skipped |-> sk]
  ELSE
    LET top  == Top(q)
        rest == q \ {top}
    IN  IF u >= 0 /\ top.time > u THEN
          [queue |-> rest, time |-> u, out |-> "limit", popped |-> top, skipped |-> sk]
        ELSE IF events[top.event].cancelled THEN
          RunLoop(rest, top.time, u, sk \cup {top.id})
        ELSE
          [queue |-> rest, time |-> top.time, out |-> "action", popped |-> top,
           skipped |-> sk]

RunLoopMutEmpty(q, t, u, sk) ==
  IF q = {} THEN
    [queue |-> q, time |-> IF u >= 0 THEN u ELSE t, out |-> "empty",
     popped |-> NoEntry, skipped |-> sk]
  ELSE
    LET top  == Top(q)
        rest == q \ {top}
    IN  IF u >= 0 /\ top.time > u THEN
          [queue |-> rest, time |-> u, out |-> "limit", popped |-> top, skipped |-> sk]
        ELSE IF events[top.event].cancelled THEN
          RunLoop(rest, t, u, sk \cup {top.id})
        ELSE
          [queue |-> rest, time |-> top.time, out |-> "action", popped |-> top,
           skipped |-> sk]

RunLoop(q, t, u, sk) ==
  IF q = {} THEN                                   \* while (!event_queue.empty())
    [queue |-> q, time |-> t, out |-> "empty", popped |-> NoEntry, skipped |-> sk]
  ELSE
    LET top  == Top(q)                             \* event_queue.top()
        rest == q \ {top}                          \* event_queue.pop()
    IN  IF u >= 0 /\ top.time > u THEN             \* time = until; return;
          [queue |-> rest, time |-> u, out |-> "limit", popped |-> top, skipped |-> sk]
        ELSE IF events[top.event].cancelled THEN   \* continue;
          RunLoop(rest, t, u, sk \cup {top.id})
        ELSE                                       \* time = event_time; action
          [queue |-> rest, time |-> top.time, out |-> "action", popped |-> top,
           skipped |-> sk]

\* The line run() writes for the entry it executes: the clock it has just
\* set, formatted, and the event's to_string(), by the event's index.  The
\* times of the model are whole numbers, which the format (fixed, one
\* decimal) writes exactly.
LogLine(t, e) == [t |-> t, to_string |-> e]

\* if (log_events) std::cout << ... after a stretch of the run loop with
\* result r: the lines written so far
EmitMutLimit(lines, flag, r) ==
  IF flag /\ r.out \in {"action", "limit"}
  THEN Append(lines, LogLine(r.time, r.popped.event))
  ELSE lines

Emit(lines, flag, r) ==
  IF flag /\ r.out = "action"
  THEN Append(lines, LogLine(r.time, r.popped.event))
  ELSE lines

\* The state after a stretch of the run loop with result r, within the
\* run() call described by c.
Advance(r, c) ==
  /\ event_queue' = r.queue
  /\ time' = r.time
  /\ cout' = Emit(cout, log_events, r)
  /\ log_events' = log_events
  /\ hist' = [i \in DOMAIN hist |->
               IF i \in r.skipped THEN [hist[i] EXCEPT !.status = "skipped"]
               ELSE IF i = r.popped.id THEN
                 [hist[i] EXCEPT !.status =
                    IF r.out = "limit" THEN "dropped" ELSE "executed"]
               ELSE hist[i]]
  /\ IF r.out = "action"
     THEN /\ pc' = "action"                 \* event->action(*this)
          /\ cur' = r.popped.id
          /\ executed' = Append(executed,
                 [id |-> r.popped.id, event |-> r.popped.event,
                  time |-> r.popped.time, now |-> r.time, run |-> c.n])
          /\ call' = c
     ELSE /\ pc' = "idle"                   \* run() returns
          /\ cur' = -1
          /\ executed' = executed
          /\ call' = [c EXCEPT !.ret = r.out]
  /\ UNCHANGED statsVars

\* ------------------------------------------------------ double results
\* The quotient n / d of two doubles, kept exact.
Quot(n, d) == [num |-> n, den |-> d]

\* The literal 0.0
Zero == Quot(0, 1)

\* a and b are the same number
SameValue(a, b) == a.den # 0 /\ b.den # 0 /\ a.num * b.den = b.num * a.den

\* std::min(a, b) / std::max(a, b)
StdMin(a, b) == IF b < a THEN b ELSE a
StdMax(a, b) == IF a < b THEN b ELSE a

\* ---------------------------------------------------- TimeWeightedStats
\* TimeWeightedStats::TimeWeightedStats(name)
TimeWeightedStats ==
  [last_time |-> 0, last_value |-> 0, integral |-> 0, min |-> 0, max |-> 0,
   update_count |-> 1]

\* TimeWeightedStats::Update(time, value) on the object s: whether it threw
\* std::invalid_argument, and the object afterwards.
TW_UpdateMutNoGuard(s, t, value) ==
  [thrown |-> FALSE,
   s |-> [last_time    |-> t,
          last_value   |-> value,
          integral     |-> s.integral + s.last_value * (t - s.last_time),
          min          |-> StdMin(s.min, value),
          max          |-> StdMax(s.max, value),
          update_count |-> s.update_count + 1]]

TW_UpdateMutStrict(s, t, value) ==
  IF t <= s.last_time THEN
    [thrown |-> TRUE, s |-> s]
  ELSE
    [thrown |-> FALSE,
     s |-> [last_time    |-> t,
            last_value   |-> value,
            integral     |-> s.integral + s.last_value * (t - s.last_time),
            min          |-> StdMin(s.min, value),
            max          |-> StdMax(s.max, value),
            update_count |-> s.update_count + 1]]

TW_UpdateMutArea(s, t, value) ==
  IF t < s.last_time THEN
    [thrown |-> TRUE, s |-> s]
  ELSE
    [thrown |-> FALSE,
     s |-> [last_time    |-> t,
            last_value   |-> value,
            integral     |-> s.integral + value * (t - s.last_time),
            min          |-> StdMin(s.min, value),
            max          |-> StdMax(s.max, value),
            update_count |-> s.update_count + 1]]

TW_UpdateMutCount(s, t, value) ==
  IF t < s.last_time THEN
    [thrown |-> TRUE, s |-> [s EXCEPT !.update_count = s.update_count + 1]]
  ELSE
    [thrown |-> FALSE,
     s |-> [last_time    |-> t,
            last_value   |-> value,
            integral     |-> s.integral + s.last_value * (t - s.last_time),
            min          |-> StdMin(s.min, value),
            max          |-> StdMax(s.max, value),
            update_count |-> s.update_count + 1]]

TW_UpdateMutFirst(s, t, value) ==
  IF t < s.last_time THEN
    [thrown |-> TRUE, s |-> s]
  ELSE
    [thrown |-> FALSE,
     s |-> [last_time    |-> t,
            last_value   |-> value,
            integral     |-> s.integral + s.last_value * (t - s.last_time),
            min          |-> IF s.update_count = 1 THEN value
                             ELSE StdMin(s.min, value),
            max          |-> IF s.update_count = 1 THEN value
                             ELSE StdMax(s.max, value),
            update_count |-> s.update_count + 1]]

TW_Update(s, t, value) ==
  IF t < s.last_time THEN                       \* throw std::invalid_argument
    [thrown |-> TRUE, s |-> s]
  ELSE
    [thrown |-> FALSE,
     s |-> [last_time    |-> t,
            last_value   |-> value,
            integral     |-> s.integral + s.last_value * (t - s.last_time),
            min          |-> StdMin(s.min, value),
            max          |-> StdMax(s.max, value),
            update_count |-> s.update_count + 1]]

\* TimeWeightedStats::Count()
TW_Count(s) == s.update_count

\* TimeWeightedStats::Average(end_time) on the object s
TW_AverageMutSign(s, end_time) ==
  IF end_time = 0 THEN
    [thrown |-> FALSE, result |-> Zero]
  ELSE
    [thrown |-> FALSE,
     result |-> Quot(s.integral + s.last_value * (end_time - s.last_time),
                     end_time)]

TW_Average(s, end_time) ==
  IF end_time <= 0 THEN                         \* return 0.0
    [thrown |-> FALSE, result |-> Zero]
  ELSE
    [thrown |-> FALSE,
     result |-> Quot(s.integral + s.last_value * (end_time - s.last_time),
                     end_time)]

\* TimeWeightedStats::Min() / Max()
TW_Min(s) == s.min
TW_Max(s) == s.max

\* TimeWeightedStats::Report(end_time): the values it writes, line by line.
\* thrown: an exception left Report.
TW_Report(s, end_time) ==
  LET avg == TW_Average(s, end_time)
  IN  [thrown  |-> avg.thrown,
       updates |-> TW_Count(s),
       average |-> avg.result,
       min     |-> TW_Min(s),
       max     |-> TW_Max(s)]

\* ------------------------------------------------------------ EventStats
\* EventStats::EventStats(name): observations_()
EventStats == << >>

\* EventStats::Add(value): observations_.push_back(value)
ES_Add(obs, value) == Append(obs, value)

\* EventStats::Count()
ES_Count(obs) == Len(obs)

\* std::accumulate(first, first + k, init)
RECURSIVE Accumulate(_, _, _)
Accumulate(obs, k, init) ==
  IF k = 0 THEN init ELSE Accumulate(obs, k - 1, init) + obs[k]

\* EventStats::Average()
ES_AverageMutNoGuard(obs) ==
  Quot(Accumulate(obs, Len(obs), 0), Len(obs))

ES_Average(obs) ==
  IF obs = << >> THEN Zero                      \* return 0.0
  ELSE Quot(Accumulate(obs, Len(obs), 0), Len(obs))

\* The sum of (val - avg) * (val - avg) over observations_[1..k], where avg
\* is sum / n: a quotient with denominator n * n.
RECURSIVE SquaredDeviations(_, _, _, _)
SquaredDeviations(obs, k, sum, n) ==
  IF k = 0 THEN 0
  ELSE SquaredDeviations(obs, k - 1, sum, n)
         + (n * obs[k] - sum) * (n * obs[k] - sum)

\* EventStats::StandardDeviation(): the number whose square root it returns
ES_StandardDeviationMutPopulation(obs) ==
  IF Len(obs) < 2 THEN Zero
  ELSE LET avg == ES_Average(obs)
           n   == Len(obs)
       IN  Quot(SquaredDeviations(obs, n, avg.num, avg.den), n * n * n)

ES_StandardDeviation(obs) ==
  IF Len(obs) < 2 THEN Zero                     \* return 0.0
  ELSE LET avg == ES_Average(obs)
           n   == Len(obs)
       IN  Quot(SquaredDeviations(obs, n, avg.num, avg.den), n * n * (n - 1))

\* std::min_element / std::max_element over observations_[1..k], k >= 1
RECURSIVE MinElement(_, _)
MinElement(obs, k) ==
  IF k = 1 THEN obs[1]
  ELSE LET m == MinElement(obs, k - 1) IN IF obs[k] < m THEN obs[k] ELSE m

RECURSIVE MaxElement(_, _)
MaxElement(obs, k) ==
  IF k = 1 THEN obs[1]
  ELSE LET m == MaxElement(obs, k - 1) IN IF m < obs[k] THEN obs[k] ELSE m

\* EventStats::Min()
ES_MinMutFront(obs) == IF obs = << >> THEN 0 ELSE obs[1]

ES_Min(obs) == IF obs = << >> THEN 0 ELSE MinElement(obs, Len(obs))

\* EventStats::Max()
ES_Max(obs) == IF obs = << >> THEN 0 ELSE MaxElement(obs, Len(obs))

\* What Count, Average, StandardDeviation, Min and Max return on obs
ES_Summary(obs) ==
  [count   |-> ES_Count(obs),
   average |-> ES_Average(obs),
   stddev  |-> ES_StandardDeviation(obs),
   min     |-> ES_Min(obs),
   max     |-> ES_Max(obs)]

\* The table t_values[] of ConfidenceInterval95, in thousandths, under its
\* zero-based index: t_values[df - 1] belongs to df degrees of freedom.
t_values ==
  LET table == <<12706, 4303, 3182, 2776, 2571,
                 2447, 2365, 2306, 2262, 2228,
                 2201, 2179, 2160, 2145, 2131,
                 2120, 2110, 2101, 2093, 2086,
                 2080, 2074, 2069, 2064, 2060,
                 2056, 2052, 2048, 2045>>
  IN  [i \in 0..(Len(table) - 1) |-> table[i + 1]]

\* What ConfidenceInterval95 gives when it does not return a pair
NoInterval(thrown, aborted) ==
  [thrown |-> thrown, aborted |-> aborted, mean |-> Zero, critical_value |-> 0,
   std_error |-> Zero]

\* EventStats::ConfidenceInterval95().  The pair returned is
\* (mean - margin, mean + margin) with margin = critical_value * std_error;
\* critical_value is in thousandths, std_error is the number whose square
\* root the code takes (std_dev squared over n).  aborted: the assert on df
\* failed.
ES_ConfidenceInterval95MutGuard(obs) ==
  IF Len(obs) < 1 THEN NoInterval(TRUE, FALSE)
  ELSE
    LET mean      == ES_Average(obs)
        std_dev   == ES_StandardDeviation(obs)
        n         == Len(obs)
        std_error == Quot(std_dev.num, std_dev.den * n)
        df        == n - 1
    IN  IF n > 30 THEN
          [thrown |-> FALSE, aborted |-> FALSE, mean |-> mean,
           critical_value |-> 1960, std_error |-> std_error]
        ELSE IF ~(df > 0 /\ df <= 29) THEN NoInterval(FALSE, TRUE)
        ELSE
          [thrown |-> FALSE, aborted |-> FALSE, mean |-> mean,
           critical_value |-> t_values[df - 1], std_error |-> std_error]

ES_ConfidenceInterval95MutSplit(obs) ==
  IF Len(obs) < 2 THEN NoInterval(TRUE, FALSE)
  ELSE
    LET mean      == ES_Average(obs)
        std_dev   == ES_StandardDeviation(obs)
        n         == Len(obs)
        std_error == Quot(std_dev.num, std_dev.den * n)
        df        == n - 1
    IN  IF n >= 30 THEN
          [thrown |-> FALSE, aborted |-> FALSE, mean |-> mean,
           critical_value |-> 1960, std_error |-> std_error]
        ELSE IF ~(df > 0 /\ df <= 29) THEN NoInterval(FALSE, TRUE)
        ELSE
          [thrown |-> FALSE, aborted |-> FALSE, mean |-> mean,
           critical_value |-> t_values[df - 1], std_error |-> std_error]

ES_ConfidenceInterval95MutError(obs) ==
  IF Len(obs) < 2 THEN NoInterval(TRUE, FALSE)
  ELSE
    LET mean      == ES_Average(obs)
        std_dev   == ES_StandardDeviation(obs)
        n         == Len(obs)
        std_error == Quot(std_dev.num, std_dev.den)
        df        == n - 1
    IN  IF n > 30 THEN
          [thrown |-> FALSE, aborted |-> FALSE, mean |-> mean,
           critical_value |-> 1960, std_error |-> std_error]
        ELSE IF ~(df > 0 /\ df <= 29) THEN NoInterval(FALSE, TRUE)
        ELSE
          [thrown |-> FALSE, aborted |-> FALSE, mean |-> mean,
           critical_value |-> t_values[df - 1], std_error |-> std_error]

ES_ConfidenceInterval95(obs) ==
  IF Len(obs) < 2 THEN NoInterval(TRUE, FALSE)   \* throw std::invalid_argument
  ELSE
    LET mean      == ES_Average(obs)
        std_dev   == ES_StandardDeviation(obs)
        n         == Len(obs)
        std_error == Quot(std_dev.num, std_dev.den * n)
        df        == n - 1
    IN  IF n > 30 THEN
          [thrown |-> FALSE, aborted |-> FALSE, mean |-> mean,
           critical_value |-> 1960, std_error |-> std_error]
        ELSE IF ~(df > 0 /\ df <= 29) THEN       \* assert(df > 0 && df <= 29)
          NoInterval(FALSE, TRUE)
        ELSE
          [thrown |-> FALSE, aborted |-> FALSE, mean |-> mean,
           critical_value |-> t_values[df - 1], std_error |-> std_error]

\* EventStats::Report(): the values it writes, line by line; the last line
\* is the interval or "N/A".  thrown: an exception left Report.
ES_Report(obs) ==
  LET ci == IF ES_Count(obs) >= 2 THEN ES_ConfidenceInterval95(obs)
            ELSE NoInterval(FALSE, FALSE)
  IN  [thrown  |-> ci.thrown,
       aborted |-> ci.aborted,
       count   |-> ES_Count(obs),
       average |-> ES_Average(obs),
       stddev  |-> ES_StandardDeviation(obs),
       min     |-> ES_Min(obs),
       max     |-> ES_Max(obs),
       ci_line |-> IF ES_Count(obs) >= 2 THEN "interval" ELSE "N/A",
       ci      |-> ci]

\* ------------------------------------------------------- StatsCollector
\* An empty std::unordered_map
EmptyMap == [n \in {} |-> 0]

\* map[name] = v
Put(m, name, v) ==
  [n \in DOMAIN m \cup {name} |-> IF n = name THEN v ELSE m[n]]

\* StatsCollector(): event_stats_ and time_weighted_stats_ empty
StatsCollector ==
  [event_stats_ |-> EmptyMap, time_weighted_stats_ |-> EmptyMap]

\* StatsCollector::Add(name, value)
SC_AddMutFresh(c, name, value) ==
  LET found == Put(c.event_stats_, name, EventStats)
  IN  [c EXCEPT !.event_stats_ = Put(found, name, ES_Add(found[name], value))]

SC_AddMutDrop(c, name, value) ==
  LET m     == c.event_stats_
      found == IF name \in DOMAIN m THEN m ELSE Put(EmptyMap, name, EventStats)
  IN  [c EXCEPT !.event_stats_ = Put(found, name, ES_Add(found[name], value))]

SC_AddMutBoth(c, name, value) ==
  LET m     == c.event_stats_
      found == IF name \in DOMAIN m THEN m ELSE Put(m, name, EventStats)
  IN  [event_stats_ |-> Put(found, name, ES_Add(found[name], value)),
       time_weighted_stats_ |->
         Put(c.time_weighted_stats_, name, TimeWeightedStats)]

SC_Add(c, name, value) ==
  LET m     == c.event_stats_
      found == IF name \in DOMAIN m THEN m         \* it == event_stats_.end()
               ELSE Put(m, name, EventStats)
  IN  [c EXCEPT !.event_stats_ = Put(found, name, ES_Add(found[name], value))]

\* StatsCollector::Add(name, time, value): the entry is created before
\* Update is called, and stays when Update throws.
SC_AddTimed(c, name, t, value) ==
  LET m     == c.time_weighted_stats_
      found == IF name \in DOMAIN m THEN m
               ELSE Put(m, name, TimeWeightedStats)
      r     == TW_Update(found[name], t, value)
  IN  [thrown |-> r.thrown,
       c |-> [c EXCEPT !.time_weighted_stats_ = Put(found, name, r.s)]]

\* StatsCollector::GetEvent(name) / GetDiscrete(name): null is nullptr
SC_GetEvent(c, name) ==
  IF name \in DOMAIN c.event_stats_
  THEN [null |-> FALSE, stats |-> c.event_stats_[name]]
  ELSE [null |-> TRUE, stats |-> EventStats]

\* StatsCollector::GetTimeWeighted(name)
SC_GetTimeWeighted(c, name) ==
  IF name \in DOMAIN c.time_weighted_stats_
  THEN [null |-> FALSE, stats |-> c.time_weighted_stats_[name]]
  ELSE [null |-> TRUE, stats |-> TimeWeightedStats]

\* StatsCollector::HasEvent(name) / HasDiscrete(name)
SC_HasEvent(c, name) == name \in DOMAIN c.event_stats_

\* StatsCollector::HasTimeWeighted(name)
SC_HasTimeWeighted(c, name) == name \in DOMAIN c.time_weighted_stats_

\* StatsCollector::EventNames() / DiscreteNames(): the names in the vector,
\* whose order is the map's iteration order
SC_EventNames(c) == DOMAIN c.event_stats_

\* StatsCollector::TimeWeightedNames()
SC_TimeWeightedNames(c) == DOMAIN c.time_weighted_stats_

\* StatsCollector::Report(end_time): the reports it concatenates
SC_Report(c, end_time) ==
  LET ev == [n \in DOMAIN c.event_stats_ |-> ES_Report(c.event_stats_[n])]
      tm == [n \in DOMAIN c.time_weighted_stats_ |->
               TW_Report(c.time_weighted_stats_[n], end_time)]
  IN  [thrown |-> \/ \E n \in DOMAIN ev : ev[n].thrown
                  \/ \E n \in DOMAIN tm : tm[n].thrown,
       event_stats   |-> ev,
       time_weighted |-> tm]

\* The operations that signal an error when the statistics stored under
\* name are fetched from c and every query is made on them, the time-weighted
\* ones with end_time, and c.Report(end_time) is called.
SC_Failures(c, name, end_time) ==
  LET ev == SC_GetEvent(c, name)
      tm == SC_GetTimeWeighted(c, name)
  IN  {o \in {"ConfidenceInterval95", "EventStats::Report",
              "Average", "TimeWeightedStats::Report",
              "StatsCollector::Report"} :
         \/ o = "ConfidenceInterval95" /\ ~ev.null
              /\ LET ci == ES_ConfidenceInterval95(ev.stats)
                 IN  ci.thrown \/ ci.aborted
         \/ o = "EventStats::Report" /\ ~ev.null
              /\ LET r == ES_Report(ev.stats) IN r.thrown \/ r.aborted
         \/ o = "Average" /\ ~tm.null /\ TW_Average(tm.stats, end_time).thrown
         \/ o = "TimeWeightedStats::Report" /\ ~tm.null
              /\ TW_Report(tm.stats, end_time).thrown
         \/ o = "StatsCollector::Report" /\ SC_Report(c, end_time).thrown}

TypeOK ==
  /\ time \in Int
  /\ event_counter \in Nat
  /\ log_events \in BOOLEAN
  /\ pc \in {"idle", "action"}

\* The state after Simulator(flag) and the other constructors
InitWith(flag) ==
  /\ time = 0                      \* Simulator(): time(0.0), event_counter(0)
  /\ event_counter = 0
  /\ event_queue = {}
  /\ events = << >>
  /\ pc = "idle"
  /\ until = -1
  /\ cur = -1
  /\ hist = << >>
  /\ executed = << >>
  /\ log_events = flag             \* log_events(log_events)
  /\ cout = << >>
  /\ call = [n |-> 0, ret |-> "none", time0 |-> 0, queue0 |-> {}, exec0 |-> 0,
             cancelled0 |-> {}]
  /\ tw = TimeWeightedStats
  /\ tw_log = << >>
  /\ tw_out = [op |-> "none", time |-> 0, value |-> 0, before |-> tw,
               thrown |-> FALSE, result |-> Zero]
  /\ es = EventStats
  /\ es_out = [op |-> "none", adds |-> 0, summary |-> ES_Summary(es)]
  /\ ci_out = [op |-> "none", ci |-> NoInterval(FALSE, FALSE), ci_line |-> "none",
                stddev |-> Zero]
  /\ sc = StatsCollector
  /\ sc_added = [n \in Names |-> 0]
  /\ sc_out = [op |-> "none", name |-> "", time |-> 0, value |-> 0,
               calls |-> 0, last_time |-> 0, thrown |-> {}]

\* Simulator sim;  (log_events = false)
Init == InitWith(FALSE)

\* Simulator sim(flag);
InitLog == \E flag \in BOOLEAN : InitWith(flag)

\* Simulator::schedule(event) on the event of index e of the objects evs,
\* from the caller or from inside an action
schedule(evs, e) ==
  /\ LET t == time + evs[e].delay IN
       /\ events' = [evs EXCEPT ![e].time = t]
       /\ event_queue' = event_queue \cup {ScheduledEvent(t, event_counter, e)}
       /\ hist' = [i \in 0..event_counter |->
                    IF i < event_counter THEN hist[i]
                    ELSE [time |-> t, event |-> e, now |-> time,
                          delay |-> evs[e].delay, parent |-> cur,
                          status |-> "pending"]]
  /\ event_counter' = event_counter + 1
  /\ UNCHANGED <<time, pc, until, cur, executed, call, log_events, cout>>
  /\ UNCHANGED statsVars

\* sim.schedule(std::make_shared<SomeEvent>(d))
ScheduleNew(d) ==
  /\ event_counter < MaxSched
  /\ Len(events) < MaxEvents
  /\ schedule(Append(events, Event(d)), Len(events) + 1)

\* sim.schedule(event) on an event object that was scheduled before
ScheduleAgain(e) ==
  /\ event_counter < MaxSched
  /\ schedule(events, e)

\* event->cancel(), from the caller or from inside an action
CancelMutRemove(e) ==
  /\ events' = [events EXCEPT ![e] = cancel(events[e])]
  /\ event_queue' = {x \in event_queue : x.event # e}
  /\ UNCHANGED <<time, event_counter, pc, until, cur, hist, executed, call,
                 log_events, cout>>
  /\ UNCHANGED statsVars

Cancel(e) ==
  /\ events' = [events EXCEPT ![e] = cancel(events[e])]
  /\ UNCHANGED <<time, event_counter, event_queue, pc, until, cur, hist,
                 executed, call, log_events, cout>>
  /\ UNCHANGED statsVars

\* Simulator::run(until), called from outside: runs up to the first action
\* invocation, or to its return.
run(u) ==
  /\ pc = "idle"
  /\ until' = u
  /\ Advance(RunLoop(event_queue, time, u, {}),
             [n |-> call.n + 1, ret |-> "running", time0 |-> time,
              queue0 |-> event_queue, exec0 |-> Len(executed),
              cancelled0 |-> {e \in 1..Len(events) : events[e].cancelled}])
  /\ UNCHANGED <<event_counter, events>>

\* event->action(*this) returns into run(), which goes on to the next action
\* invocation, or to its return.
ActionReturn ==
  /\ pc = "action"
  /\ Advance(RunLoop(event_queue, time, until, {}), call)
  /\ UNCHANGED <<event_counter, events, until>>

Next ==
  \/ \E d \in Delays : ScheduleNew(d)
  \/ \E e \in 1..Len(events) : ScheduleAgain(e)
  \/ \E e \in 1..Len(events) : Cancel(e)
  \/ \E u \in Untils : call.n < MaxRuns /\ run(u)
  \/ ActionReturn

Spec == Init /\ [][Next]_vars

\* stats.Update(t, v) called on tw
Update(t, v) ==
  /\ TW_Count(tw) <= MaxUpdates
  /\ LET r == TW_Update(tw, t, v) IN
       /\ tw' = r.s
       /\ tw_log' = IF r.thrown THEN tw_log ELSE Append(tw_log, <<t, v>>)
       /\ tw_out' = [op |-> "Update", time |-> t, value |-> v, before |-> tw,
                     thrown |-> r.thrown, result |-> Zero]
  /\ UNCHANGED <<simVars, esVars, scVars>>

\* stats.Average(e) called on tw
Average(e) ==
  /\ LET r == TW_Average(tw, e) IN
       tw_out' = [op |-> "Average", time |-> e, value |-> 0, before |-> tw,
                  thrown |-> r.thrown, result |-> r.result]
  /\ UNCHANGED <<simVars, tw, tw_log, esVars, scVars>>

NextTW ==
  \/ \E t \in Times, v \in Values : Update(t, v)
  \/ \E e \in EndTimes : Average(e)

SpecTW == Init /\ [][NextTW]_vars

\* stats.Add(v) called on es
Add(v) ==
  /\ Len(es) < MaxObs
  /\ es' = ES_Add(es, v)
  /\ es_out' = [op |-> "Add", adds |-> es_out.adds + 1,
                summary |-> es_out.summary]
  /\ UNCHANGED <<simVars, twVars, ci_out, scVars>>

\* stats.Count(), Average(), StandardDeviation(), Min() and Max() called on es
Summary ==
  /\ es_out' = [op |-> "Summary", adds |-> es_out.adds,
                summary |-> ES_Summary(es)]
  /\ UNCHANGED <<simVars, twVars, es, ci_out, scVars>>

NextES ==
  \/ \E v \in Values : Add(v)
  \/ Summary

SpecES == Init /\ [][NextES]_vars

\* stats.Add(v) called on es while a long sample is collected: the first
\* MaxVaried observations range over Values, the later ones repeat the last.
AddSample(v) ==
  /\ Len(es) < MaxSample
  /\ Len(es) >= MaxVaried => v = es[Len(es)]
  /\ es' = ES_Add(es, v)
  /\ ci_out' = [op |-> "Add", ci |-> NoInterval(FALSE, FALSE), ci_line |-> "none",
                stddev |-> Zero]
  /\ UNCHANGED <<simVars, twVars, es_out, scVars>>

\* stats.ConfidenceInterval95() called on es
ConfidenceInterval95 ==
  /\ ci_out' = [op |-> "ConfidenceInterval95", ci |-> ES_ConfidenceInterval95(es),
                ci_line |-> "none", stddev |-> Zero]
  /\ UNCHANGED <<simVars, twVars, es, es_out, scVars>>

\* stats.Report() called on es
Report ==
  /\ LET r == ES_Report(es) IN
       ci_out' = [op |-> "Report",
                  ci |-> [r.ci EXCEPT !.thrown = r.thrown, !.aborted = r.aborted],
                  ci_line |-> r.ci_line, stddev |-> r.stddev]
  /\ UNCHANGED <<simVars, twVars, es, es_out, scVars>>

NextCI ==
  \/ \E v \in Values : AddSample(v)
  \/ ConfidenceInterval95
  \/ Report

SpecCI == Init /\ [][NextCI]_vars

\* stats.Add(name, value) called on sc
AddValue(name, value) ==
  /\ sc_out.calls < MaxAdds
  /\ sc' = SC_Add(sc, name, value)
  /\ sc_added' = [sc_added EXCEPT ![name] = @ + 1]
  /\ sc_out' = [op |-> "Add", name |-> name, time |-> 0, value |-> value,
                calls |-> sc_out.calls + 1, last_time |-> 0, thrown |-> {}]
  /\ UNCHANGED <<simVars, twVars, esVars>>

\* stats.Add(name, t, value) called on sc.  last_time: last_time_ of the
\* statistic Update is called on.
AddTimed(name, t, value) ==
  /\ sc_out.calls < MaxAdds
  /\ LET r == SC_AddTimed(sc, name, t, value) IN
       /\ sc' = r.c
       /\ sc_out' = [op |-> "AddTimed", name |-> name, time |-> t,
                     value |-> value, calls |-> sc_out.calls + 1,
                     last_time |-> SC_GetTimeWeighted(sc, name).stats.last_time,
                     thrown |-> IF r.thrown THEN {"Update"} ELSE {}]
  /\ UNCHANGED <<simVars, twVars, esVars, sc_added>>

\* GetEvent(name), GetTimeWeighted(name), every query on what they return,
\* and Report(end_time), called on sc
Inspect(name, end_time) ==
  /\ sc_out' = [op |-> "Inspect", name |-> name, time |-> end_time,
                value |-> 0, calls |-> sc_out.calls, last_time |-> 0,
                thrown |-> SC_Failures(sc, name, end_time)]
  /\ UNCHANGED <<simVars, twVars, esVars, sc, sc_added>>

NextSC ==
  \/ \E name \in Names, v \in SCValues : AddValue(name, v)
  \/ \E name \in Names, t \in SCTimes, v \in SCValues : AddTimed(name, t, v)
  \/ \E name \in Names, e \in SCTimes : Inspect(name, e)

SpecSC == Init /\ [][NextSC]_vars

\* ------------------------------------------- a simulator that may log
\* sim.schedule(std::make_shared<SomeEvent>(d)), any number of events
ScheduleFresh(d) == schedule(Append(events, Event(d)), Len(events) + 1)

NextLog ==
  \/ \E d \in LogDelays : event_counter < MaxLogSched /\ ScheduleFresh(d)
  \/ \E e \in 1..Len(events) : Cancel(e)
  \/ \E u \in LogUntils : call.n < MaxLogRuns /\ run(u)
  \/ ActionReturn

SpecLog == InitLog /\ [][NextLog]_vars

\* ------------------------------- actions that record a statistic at now()
\* stats.Add(name, sim.now(), value) inside an action, as the actions of
\* examples/simple_queue.cpp do
Record(name, value) ==
  /\ pc = "action"
  /\ AddTimed(name, now, value)

NextRec ==
  \/ \E d \in RecDelays : event_counter < MaxRecSched /\ ScheduleFresh(d)
  \/ \E e \in 1..Len(events) : Cancel(e)
  \/ \E u \in RecUntils : call.n < MaxRecRuns /\ run(u)
  \/ ActionReturn
  \/ Record("queue", 1)

SpecRec == Init /\ [][NextRec]_vars

\* ------------------------------------------------------------ properties
Entry(i) == ScheduledEvent(hist[i].time, i, hist[i].event)

Returned == pc = "idle" /\ call.ret \in {"empty", "limit"}

\* C1: when a bounded run(until) has returned at the boundary, every entry
\* with time > until whose event is not cancelled and whose action has not
\* run is still in the queue.
C1_BoundedRunKeepsFutureEvents ==
  (pc = "idle" /\ call.ret = "limit" /\ until >= 0) =>
    \A i \in DOMAIN hist :
      (/\ hist[i].time > until
       /\ ~events[hist[i].event].cancelled
       /\ hist[i].status # "executed") => Entry(i) \in event_queue

\* C2: within one run() call the actions are invoked in non-decreasing order
\* of scheduled time, whatever the order of the schedule calls.
C2_RunExecutesInTimeOrder ==
  \A i, j \in 1..Len(executed) :
    (i < j /\ executed[i].run = executed[j].run)
      => executed[i].time <= executed[j].time

\* C2 witness: one run() executed an entry before an entry that was scheduled
\* earlier, with a larger delay.
C2_Witness ==
  \E i, j \in 1..Len(executed) :
    /\ i < j /\ executed[i].run = executed[j].run
    /\ executed[i].id > executed[j].id
    /\ executed[i].time < executed[j].time

C4_CancelledNeverRuns ==
  [][\A k \in (Len(executed) + 1)..Len(executed') :
        ~events[executed'[k].event].cancelled]_vars

\* C4 witness: a run() that invoked some action has popped and discarded the
\* entry of a cancelled event, whose action was never invoked.
C4_Witness ==
  /\ Returned
  /\ \E i \in DOMAIN hist :
       /\ hist[i].status = "skipped"
       /\ events[hist[i].event].cancelled
       /\ \A k \in 1..Len(executed) : executed[k].event # hist[i].event
  /\ Len(executed) > 0

\* C5: no step makes the clock go backwards.
C5_ClockMonotone == [][time' >= time]_vars

\* C6: when run(until), until >= 0, has returned because the earliest entry
\* lay beyond until, now() = until.
C6_NowIsUntilAtBoundary ==
  (pc = "idle" /\ call.ret = "limit") => (until >= 0 /\ now = until)

\* C6 witness: a bounded run executed an event and then stopped at the
\* boundary, which differs from that event's time.
C6_Witness ==
  /\ pc = "idle" /\ call.ret = "limit"
  /\ Len(executed) > call.exec0
  /\ executed[Len(executed)].time < until

\* The run() call last made found exactly one pending entry, of a cancelled
\* event.
SoleCancelled ==
  /\ call.n > 0
  /\ Cardinality(call.queue0) = 1
  /\ \A x \in call.queue0 : x.event \in call.cancelled0

SoleTime == (CHOOSE x \in call.queue0 : TRUE).time

\* C7 as stated: after a run() call that found only a cancelled event
\* pending, now() is what it was before the call, for every until.
C7_SoleCancelledKeepsNow ==
  (Returned /\ SoleCancelled) => now = call.time0

\* C7 amended: now() is unchanged when until < 0 or until >= the entry's
\* time, and equals until when 0 <= until < the entry's time.
C7_SoleCancelledNow ==
  (Returned /\ SoleCancelled) =>
    now = IF until >= 0 /\ SoleTime > until THEN until ELSE call.time0

\* C7 witness: a bounded run with until at or above the cancelled entry's
\* time and different from the clock has returned.
C7_Witness ==
  /\ Returned /\ SoleCancelled
  /\ until >= SoleTime /\ until # call.time0
  /\ call.ret = "empty"

C9_ScheduledAtNowPlusDelay ==
  /\ \A x \in event_queue :
       /\ x.id \in DOMAIN hist
       /\ x.time = hist[x.id].now + hist[x.id].delay
  /\ \A i \in DOMAIN hist :
       hist[i].parent # -1 => hist[i].now = hist[hist[i].parent].time
  /\ \A k \in 1..Len(executed) :
       executed[k].now = hist[executed[k].id].now + hist[executed[k].id].delay
  /\ pc = "action" => now = hist[cur].now + hist[cur].delay

\* C9 witness: an entry scheduled with a positive delay from inside an action
\* running at a positive time has had its action invoked.
C9_Witness ==
  \E k \in 1..Len(executed) :
    LET h == hist[executed[k].id] IN
      h.parent # -1 /\ h.delay > 0 /\ h.now > 0

C11_FreshRunReachesUntil ==
  (Returned /\ event_counter = 0 /\ until >= 0) => now = until

\* C12: at the return of run with until < 0 the queue is empty and every
\* entry scheduled so far whose event is not cancelled has had its action
\* invoked.
C12_UnboundedRunDrains ==
  [][(/\ pc' = "idle" /\ until' < 0
      /\ (pc = "action" \/ call'.n # call.n))
       => /\ call'.ret = "empty"
          /\ event_queue' = {}
          /\ \A i \in DOMAIN hist' :
               ~events'[hist'[i].event].cancelled
                 => hist'[i].status = "executed"]_vars

\* C13: Update(time, value) throws exactly when time < lastTime; an update
\* with time = lastTime succeeds.
C13_UpdateFailsIffBackward ==
  tw_out.op = "Update" =>
    (tw_out.thrown <=> tw_out.time < tw_out.before.last_time)

\* C13 witness: an update at a positive time equal to lastTime succeeded.
C13_Witness ==
  /\ tw_out.op = "Update" /\ ~tw_out.thrown
  /\ tw_out.time = tw_out.before.last_time /\ tw_out.time > 0
  /\ tw.update_count = tw_out.before.update_count + 1

\* C14: Average(endTime) throws whenever 0 < endTime < lastTime and does not
\* throw when endTime = lastTime.
C14_AverageBeforeLastUpdateFails ==
  tw_out.op = "Average" =>
    /\ (0 < tw_out.time /\ tw_out.time < tw_out.before.last_time)
         => tw_out.thrown
    /\ tw_out.time = tw_out.before.last_time => ~tw_out.thrown

\* The area under the step function of the updates log[1..k], which starts
\* from the constructor's (0, 0).
RECURSIVE AreaSum(_, _)
AreaSum(log, k) ==
  IF k = 0 THEN 0
  ELSE LET t0 == IF k = 1 THEN 0 ELSE log[k - 1][1]
           v0 == IF k = 1 THEN 0 ELSE log[k - 1][2]
       IN  AreaSum(log, k - 1) + v0 * (log[k][1] - t0)

\* The documented example: updates (0,0), (2,5), (5,10).
TW_Example == TW_Update(TW_Update(TW_Update(TimeWeightedStats, 0, 0).s, 2, 5).s, 5, 10).s

\* C15: integral is the sum of v(i-1) * (t(i) - t(i-1)) over the successful
\* updates, Average(endTime) * endTime = integral + lastValue * (endTime -
\* lastTime) for endTime >= lastTime > 0, and the updates (0,0), (2,5), (5,10)
\* give integral 15 and Average(10) = 6.5.
C15_IntegralAndAverage ==
  /\ tw.integral = AreaSum(tw_log, Len(tw_log))
  /\ (/\ tw_out.op = "Average"
      /\ tw_out.time >= tw.last_time /\ tw.last_time > 0)
       => /\ ~tw_out.thrown
          /\ tw_out.result.den # 0
          /\ tw_out.result.num * tw_out.time =
               (tw.integral + tw.last_value * (tw_out.time - tw.last_time))
                 * tw_out.result.den
  /\ TW_Example.integral = 15
  /\ SameValue(TW_Average(TW_Example, 10).result, Quot(65, 10))

\* C15 witness: after two updates with a non-zero integral and last value, an
\* average was taken past the last update.
C15_Witness ==
  /\ Len(tw_log) >= 2 /\ tw.integral # 0 /\ tw.last_value # 0
  /\ tw_out.op = "Average" /\ tw_out.time > tw.last_time /\ tw.last_time > 0
  /\ tw_out.result.num # 0

TW_Seen == {0} \cup {tw_log[i][2] : i \in 1..Len(tw_log)}

\* C17: Min() is the minimum and Max() the maximum of 0 and the successfully
\* updated values, so Min() <= 0 <= Max().
C17_ExtremesIncludeInitial ==
  /\ TW_Min(tw) \in TW_Seen /\ \A x \in TW_Seen : TW_Min(tw) <= x
  /\ TW_Max(tw) \in TW_Seen /\ \A x \in TW_Seen : TW_Max(tw) >= x
  /\ TW_Min(tw) <= 0 /\ 0 <= TW_Max(tw)

\* C17 witness: only positive values were updated and Min() is still 0.
C17_Witness ==
  /\ Len(tw_log) >= 1
  /\ \A i \in 1..Len(tw_log) : tw_log[i][2] > 0
  /\ TW_Min(tw) = 0 /\ TW_Max(tw) > 0

\* C18: Average(endTime) with endTime <= 0 returns 0 and does not throw.
C18_AverageZeroAtOrBeforeZero ==
  (tw_out.op = "Average" /\ tw_out.time <= 0) =>
    ~tw_out.thrown /\ SameValue(tw_out.result, Zero)

\* C18 witness: an average at a negative end time was taken from an object
\* with a non-zero integral and last value.
C18_Witness ==
  /\ tw_out.op = "Average" /\ tw_out.time < 0
  /\ tw.integral # 0 /\ tw.last_value # 0

\* The orders in which the observations obs can have been inserted.
InsertionOrders(obs) ==
  {[i \in 1..Len(obs) |-> obs[p[i]]] :
     p \in {f \in [1..Len(obs) -> 1..Len(obs)] :
              \A i, j \in 1..Len(obs) : i # j => f[i] # f[j]}}

\* The sum of the observations obs[k..Len(obs)]
RECURSIVE SumFrom(_, _)
SumFrom(obs, k) == IF k > Len(obs) THEN 0 ELSE obs[k] + SumFrom(obs, k + 1)

\* C19: after Add(v1..vn), n >= 1: Count = n, Average * n = the sum of the
\* vi, Min and Max are the least and the greatest vi, and every insertion
\* order of the same values gives the same results.
C19_SummaryOfObservations ==
  (es_out.op = "Summary" /\ es_out.adds >= 1) =>
    LET r == es_out.summary
        n == es_out.adds
    IN  /\ r.count = n
        /\ r.average.den # 0
        /\ r.average.num * n = SumFrom(es, 1) * r.average.den
        /\ \E i \in 1..Len(es) : es[i] = r.min
        /\ \A i \in 1..Len(es) : r.min <= es[i]
        /\ \E i \in 1..Len(es) : es[i] = r.max
        /\ \A i \in 1..Len(es) : r.max >= es[i]
        /\ \A q \in InsertionOrders(es) :
             /\ ES_Count(q) = r.count
             /\ SameValue(ES_Average(q), r.average)
             /\ ES_Min(q) = r.min
             /\ ES_Max(q) = r.max

\* C19 witness: the summary of at least three observations that are neither
\* sorted nor all equal, with a non-zero sum.
C19_Witness ==
  /\ es_out.op = "Summary" /\ es_out.adds >= 3
  /\ es[1] > es[2] /\ es[2] < es[3]
  /\ es_out.summary.average.num # 0

\* C20: on an EventStats without observations Count, Average, Min, Max and
\* StandardDeviation return 0.
C20_EmptyDefaults ==
  (es_out.op = "Summary" /\ es_out.adds = 0) =>
    LET r == es_out.summary
    IN  /\ r.count = 0
        /\ SameValue(r.average, Zero)
        /\ r.min = 0
        /\ r.max = 0
        /\ SameValue(r.stddev, Zero)

\* C20 witness: the summary was taken before any Add.
C20_Witness ==
  /\ es_out.op = "Summary" /\ es_out.adds = 0 /\ es = << >>

\* C21: ConfidenceInterval95 throws exactly when fewer than 2 observations
\* have been added; Report never throws, and its last line is the interval
\* when there are at least 2 observations and "N/A" otherwise.
C21_IntervalFailsIffTooFew ==
  /\ ci_out.op = "ConfidenceInterval95" =>
       /\ ci_out.ci.thrown <=> Len(es) < 2
       /\ ~ci_out.ci.aborted
  /\ ci_out.op = "Report" =>
       /\ ~ci_out.ci.thrown
       /\ ~ci_out.ci.aborted
       /\ ci_out.ci_line = IF Len(es) >= 2 THEN "interval" ELSE "N/A"
       /\ Len(es) >= 2 => ci_out.ci.critical_value > 0

\* C21 witness: ConfidenceInterval95 was called on a single observation and
\* threw.
C21_Witness ==
  ci_out.op = "ConfidenceInterval95" /\ Len(es) = 1 /\ ci_out.ci.thrown

\* C22: on n >= 2 observations the critical value is 1.96 exactly when
\* n > 30; for n <= 30 it is the table entry of df = n - 1, whose index
\* n - 2 lies inside the 29 entries; the entries fall with df and stay above
\* 1.96; n = 2, 3, 30, 31 give 12.706, 4.303, 2.045, 1.96.
C22_CriticalValueByCount ==
  (ci_out.op = "ConfidenceInterval95" /\ Len(es) >= 2) =>
    LET n  == Len(es)
        cv == ci_out.ci.critical_value
    IN  /\ ~ci_out.ci.thrown /\ ~ci_out.ci.aborted
        /\ cv = 1960 <=> n > 30
        /\ n <= 30 =>
             /\ n - 2 \in DOMAIN t_values
             /\ DOMAIN t_values = 0..28
             /\ cv = t_values[n - 2]
             /\ cv > 1960
             /\ n > 2 => cv < t_values[n - 3]
        /\ n = 2 => cv = 12706
        /\ n = 3 => cv = 4303
        /\ n = 30 => cv = 2045
        /\ n = 31 => cv = 1960

\* C22 witness: ConfidenceInterval95 was called on 31 observations.
C22_Witness ==
  ci_out.op = "ConfidenceInterval95" /\ Len(es) = 31 /\ ~ci_out.ci.thrown

\* The greatest common divisor of a >= 0 and b >= 0
RECURSIVE Gcd(_, _)
Gcd(a, b) == IF b = 0 THEN a ELSE Gcd(b, a % b)

\* The quotient num / den, num >= 0 and den > 0, in lowest terms
Lowest(num, den) ==
  LET g == Gcd(num, den) IN Quot(num \div g, den \div g)

\* The sum over obs[k..Len(obs)] of (n * x - s) * (n * x - s)
RECURSIVE SumSquares(_, _, _, _)
SumSquares(obs, k, n, s) ==
  IF k > Len(obs) THEN 0
  ELSE (n * obs[k] - s) * (n * obs[k] - s) + SumSquares(obs, k + 1, n, s)

AddedNames == {n \in Names : sc_added[n] > 0}

\* C24: after k >= 1 calls of Add(name, value) GetEvent(name) is an
\* EventStats with Count() = k, created by the first call and kept by the
\* later ones; a name never added has none; EventNames() has as many names
\* as were added.
C24_AddCreatesOnceThenReuses ==
  /\ \A n \in Names :
       IF sc_added[n] > 0
       THEN /\ ~SC_GetEvent(sc, n).null
            /\ SC_HasEvent(sc, n)
            /\ ES_Count(SC_GetEvent(sc, n).stats) = sc_added[n]
       ELSE /\ SC_GetEvent(sc, n).null
            /\ ~SC_HasEvent(sc, n)
  /\ SC_EventNames(sc) = AddedNames
  /\ Cardinality(SC_EventNames(sc)) = Cardinality(AddedNames)

\* C24 witness: one name was added twice and another name once.
C24_Witness ==
  \E n, m \in Names :
    /\ n # m /\ sc_added[n] = 2 /\ sc_added[m] = 1
    /\ ES_Count(SC_GetEvent(sc, n).stats) = 2

\* C25: a call of Add(name, value) leaves the time-weighted map as it was
\* and changes the event map under name only; a call of
\* Add(name, time, value) leaves the event map as it was and changes the
\* time-weighted map under name only.
C25_NamespacesIndependent ==
  [][/\ (sc_out'.calls > sc_out.calls /\ sc_out'.op = "Add") =>
          /\ sc'.time_weighted_stats_ = sc.time_weighted_stats_
          /\ DOMAIN sc'.event_stats_
               = DOMAIN sc.event_stats_ \cup {sc_out'.name}
          /\ \A n \in DOMAIN sc.event_stats_ \ {sc_out'.name} :
               sc'.event_stats_[n] = sc.event_stats_[n]
     /\ (sc_out'.calls > sc_out.calls /\ sc_out'.op = "AddTimed") =>
          /\ sc'.event_stats_ = sc.event_stats_
          /\ DOMAIN sc'.time_weighted_stats_
               = DOMAIN sc.time_weighted_stats_ \cup {sc_out'.name}
          /\ \A n \in DOMAIN sc.time_weighted_stats_ \ {sc_out'.name} :
               sc'.time_weighted_stats_[n] = sc.time_weighted_stats_[n]
    ]_vars

\* C25 witness: one name is in both maps and another in the event map only,
\* after an Add(name, value) made when the time-weighted entry existed.
C25_Witness ==
  /\ sc_out.op = "Add"
  /\ SC_HasEvent(sc, sc_out.name) /\ SC_HasTimeWeighted(sc, sc_out.name)
  /\ SC_GetTimeWeighted(sc, sc_out.name).stats.update_count > 1
  /\ \E m \in Names : SC_HasEvent(sc, m) /\ ~SC_HasTimeWeighted(sc, m)

\* C26: a call signals an error only if it is Update, reached through
\* Add(name, time, value), with time below last_time_, or Average with
\* end_time below last_time_, or ConfidenceInterval95 on fewer than 2
\* observations; Add(name, value), the lookups, the other queries and the
\* three Report functions never do.
C26_OnlyThreeErrors ==
  \A o \in sc_out.thrown :
    \/ /\ o = "Update"
       /\ sc_out.op = "AddTimed"
       /\ sc_out.time < sc_out.last_time
    \/ /\ o = "Average"
       /\ sc_out.op = "Inspect"
       /\ ~SC_GetTimeWeighted(sc, sc_out.name).null
       /\ sc_out.time < SC_GetTimeWeighted(sc, sc_out.name).stats.last_time
    \/ /\ o = "ConfidenceInterval95"
       /\ sc_out.op = "Inspect"
       /\ ~SC_GetEvent(sc, sc_out.name).null
       /\ ES_Count(SC_GetEvent(sc, sc_out.name).stats) < 2

\* C26 witness: every query was made on a name that has a single observation
\* and a time-weighted statistic that a failed Add(name, time, value)
\* created, with an end time below 0; only ConfidenceInterval95 failed.
C26_Witness ==
  /\ sc_out.op = "Inspect"
  /\ sc_out.thrown = {"ConfidenceInterval95"}
  /\ sc_out.time < 0
  /\ ES_Count(SC_GetEvent(sc, sc_out.name).stats) = 1
  /\ ~SC_GetTimeWeighted(sc, sc_out.name).null
  /\ SC_GetTimeWeighted(sc, sc_out.name).stats.update_count = 1
  /\ \E m \in Names :
       /\ ~SC_GetTimeWeighted(sc, m).null
       /\ SC_GetTimeWeighted(sc, m).stats.last_time > 0

\* The entries of q that no other entry of q has priority over
Tops(q) == {x \in q : \A y \in q \ {x} : Less(y, x)}

\* C27: which entry run() pops next is fixed by the calls made so far: the
\* pending entries have distinct sequence ids, operator< orders any two of
\* them in exactly one direction, so exactly one entry is on top whatever
\* the times are; and the actions invoked at one time went in the order of
\* their schedule calls.
C27_PopOrderDetermined ==
  /\ \A x, y \in event_queue :
       x # y => /\ x.id # y.id
                /\ Less(x, y) <=> ~Less(y, x)
  /\ event_queue # {} =>
       /\ Cardinality(Tops(event_queue)) = 1
       /\ Top(event_queue) \in Tops(event_queue)
  /\ \A i, j \in 1..Len(executed) :
       (i < j /\ executed[i].run = executed[j].run
          /\ executed[i].time = executed[j].time
          /\ hist[executed[j].id].parent = -1) =>
         executed[i].id < executed[j].id

\* C27 witness: two entries with the same time, both scheduled from outside
\* run(), had their actions invoked by one run() call.
C27_Witness ==
  \E i, j \in 1..Len(executed) :
    /\ i < j /\ executed[i].time = executed[j].time
    /\ executed[i].run = executed[j].run
    /\ hist[executed[i].id].parent = -1
    /\ hist[executed[j].id].parent = -1

\* C28: now() changes only in a step that invokes an action (to the time of
\* the entry popped): not in a schedule or cancel step, not by discarding
\* cancelled entries, not by meeting an entry beyond until.
C28_NowChangesOnlyOnExecution ==
  [][time' # time =>
       /\ Len(executed') = Len(executed) + 1
       /\ time' = executed'[Len(executed')].time]_vars

\* C28 as amended: now() changes only in a step that invokes an action (to
\* the time of the entry popped) or in which a bounded run() returns on
\* popping an entry beyond until (to until): not in a schedule or cancel
\* step, and not by discarding cancelled entries.
C28_NowChangesOnExecutionOrBoundary ==
  [][/\ time' # time =>
          \/ /\ Len(executed') = Len(executed) + 1
             /\ time' = executed'[Len(executed')].time
             /\ pc' = "action"
          \/ /\ executed' = executed
             /\ pc' = "idle" /\ call'.ret = "limit"
             /\ until' >= 0 /\ time' = until'
             /\ \E i \in DOMAIN hist :
                  /\ hist[i].status = "pending" /\ hist'[i].status = "dropped"
                  /\ hist[i].time > until'
     /\ (event_counter' # event_counter \/ events' # events) => time' = time
     /\ (executed' = executed /\ call'.ret # "limit") => time' = time
    ]_vars

\* C28 witness: a bounded run() discarded a cancelled entry, then met an
\* entry beyond until and returned with now() = until, above now() at the
\* call.
C28_Witness ==
  /\ pc = "idle" /\ call.ret = "limit"
  /\ time = until /\ time > call.time0
  /\ Len(executed) = call.exec0
  /\ \E i \in DOMAIN hist : hist[i].status = "skipped"

\* C29: a step that sets an event's cancelled flag changes nothing else: the
\* queue, every entry's time and sequence id and now() stay; an entry leaves
\* the queue only in a step of run() that pops it, and once popped it is
\* never in the queue again.
C29_CancelOnlySetsFlag ==
  [][/\ \A e \in 1..Len(events) :
          (e <= Len(events') /\ events'[e].cancelled /\ ~events[e].cancelled) =>
            /\ events' = [events EXCEPT ![e].cancelled = TRUE]
            /\ event_queue' = event_queue
            /\ hist' = hist
            /\ time' = time
            /\ event_counter' = event_counter
     /\ \A x \in event_queue \ event_queue' :
          /\ hist[x.id].status = "pending"
          /\ hist'[x.id].status \in {"skipped", "dropped", "executed"}
          /\ events[x.event].cancelled =>
               hist'[x.id].status \in {"skipped", "dropped"}
     /\ \A i \in DOMAIN hist :
          hist[i].status # "pending" =>
            /\ hist'[i] = hist[i]
            /\ Entry(i) \notin event_queue'
    ]_vars

\* C29 witness: during an action, the entry of a cancelled event is still in
\* the queue, with the time and sequence id schedule() gave it.
C29_Witness ==
  /\ pc = "action"
  /\ \E x \in event_queue :
       /\ events[x.event].cancelled
       /\ x = Entry(x.id)
       /\ hist[x.id].status = "pending"

\* C30: the action of a pending entry whose event is cancelled is never
\* invoked, the entry staying in the queue until it is popped; setting the
\* cancelled flag during an action leaves that action running, and no
\* invocation made is ever taken back.
C30_CancelActsAtNextPop ==
  [][/\ \A i \in DOMAIN hist :
          (hist[i].status = "pending" /\ events[hist[i].event].cancelled) =>
            /\ Entry(i) \in event_queue
            /\ hist'[i].status # "executed"
            /\ \A k \in (Len(executed) + 1)..Len(executed') :
                 executed'[k].id # i
     /\ Len(executed') >= Len(executed)
     /\ \A k \in 1..Len(executed) : executed'[k] = executed[k]
     /\ \A e \in 1..Len(events) :
          (pc = "action" /\ e <= Len(events')
             /\ events'[e].cancelled /\ ~events[e].cancelled) =>
            /\ pc' = "action" /\ cur' = cur
            /\ executed' = executed
            /\ hist'[cur].status = "executed"
    ]_vars

\* C30 witness: in the first run() call, an action cancelled a pending event,
\* whose entry was then discarded, and the event of an action that was
\* invoked has been cancelled since its entry was popped.
C30_Witness ==
  /\ call.n = 1
  /\ \E j \in DOMAIN hist :
       /\ hist[j].status = "skipped"
       /\ hist[j].event \notin call.cancelled0
       /\ \E k \in 1..Len(executed) :
            /\ events[executed[k].event].cancelled
            /\ executed[k].id # j

\* C31: over every step, whether an Update call succeeds or throws,
\* lastTime does not decrease, and it is never below 0.
C31_LastTimeMonotone ==
  [][/\ tw'.last_time >= tw.last_time
     /\ tw.last_time >= 0
     /\ tw'.last_time >= 0]_vars

\* C31 witness: an Update call with a time below a positive lastTime threw.
C31_Witness ==
  /\ tw_out.op = "Update" /\ tw_out.thrown
  /\ tw_out.time >= 0 /\ tw_out.time < tw.last_time
  /\ Len(tw_log) >= 1

\* The object after the updates log[1..k] on a new TimeWeightedStats
RECURSIVE Replay(_, _)
Replay(log, k) ==
  IF k = 0 THEN TimeWeightedStats
  ELSE TW_Update(Replay(log, k - 1), log[k][1], log[k][2]).s

\* C32: an Update call that throws leaves every field as it was, so the
\* object always is what the successful updates alone make of a new object,
\* and Average returns what it returns on that object.
C32_FailedUpdateChangesNothing ==
  /\ (tw_out.op = "Update" /\ tw_out.thrown) => tw = tw_out.before
  /\ tw = Replay(tw_log, Len(tw_log))
  /\ tw_out.op = "Average" =>
       tw_out.result
         = TW_Average(Replay(tw_log, Len(tw_log)), tw_out.time).result

\* C32 witness: an Update call with a value other than the current one threw
\* on an object with a non-zero value, after a successful update.
C32_Witness ==
  /\ tw_out.op = "Update" /\ tw_out.thrown
  /\ Len(tw_log) >= 1
  /\ tw.last_value # 0 /\ tw_out.value # tw.last_value
  /\ tw.update_count = 1 + Len(tw_log)

\* C40: for endTime >= lastTime and endTime > 0, the total Average divides
\* by endTime lies between Min() * endTime and Max() * endTime.
C40_AverageBetweenExtremes ==
  (tw_out.op = "Average" /\ tw_out.time >= tw.last_time /\ tw_out.time > 0) =>
    LET e     == tw_out.time
        total == tw.integral + tw.last_value * (e - tw.last_time)
    IN  /\ ~tw_out.thrown
        /\ tw_out.result = Quot(total, e)
        /\ TW_Min(tw) * e <= total
        /\ total <= TW_Max(tw) * e

\* C40 witness: Average was taken after lastTime on an object updated with a
\* negative and a positive value, and is neither extreme.
C40_Witness ==
  /\ tw_out.op = "Average" /\ tw_out.time > tw.last_time /\ tw.last_time > 0
  /\ TW_Min(tw) < 0 /\ TW_Max(tw) > 0
  /\ TW_Min(tw) * tw_out.time < tw_out.result.num
  /\ tw_out.result.num < TW_Max(tw) * tw_out.time

\* C33: no step removes a name from either map, and in every state
\* GetEvent(name) / GetTimeWeighted(name) is non-null exactly when
\* HasEvent(name) / HasTimeWeighted(name) is true.
C33_EntriesNeverRemoved ==
  [][/\ \A n \in Names :
          /\ SC_HasEvent(sc, n) => SC_HasEvent(sc', n)
          /\ SC_HasTimeWeighted(sc, n) => SC_HasTimeWeighted(sc', n)
          /\ SC_HasEvent(sc', n) <=> ~SC_GetEvent(sc', n).null
          /\ SC_HasTimeWeighted(sc', n) <=> ~SC_GetTimeWeighted(sc', n).null
     /\ SC_EventNames(sc) \subseteq SC_EventNames(sc')
     /\ SC_TimeWeightedNames(sc) \subseteq SC_TimeWeightedNames(sc')
    ]_vars

\* C33 witness: the lookups were made when one name had been in both maps
\* over a later Add call and another name was in neither.
C33_Witness ==
  /\ sc_out.op = "Inspect"
  /\ \E n, m \in Names :
       /\ SC_HasEvent(sc, n) /\ SC_HasTimeWeighted(sc, n)
       /\ ES_Count(SC_GetEvent(sc, n).stats) >= 2
       /\ ~SC_HasEvent(sc, m) /\ ~SC_HasTimeWeighted(sc, m)
       /\ SC_GetEvent(sc, m).null /\ SC_GetTimeWeighted(sc, m).null

\* C38: a call of Add(name, time, value) that throws leaves both maps as
\* they were.
C38_FailedAddChangesNothing ==
  [][(sc_out'.calls > sc_out.calls /\ sc_out'.thrown # {}) => sc' = sc]_vars

\* C34: no step changes the time stored on an event that schedule() has
\* stamped.
C34_ScheduledTimeFixed ==
  [][\A e \in 1..Len(events) : events'[e].time = events[e].time]_vars

\* C36: in the step in which run(until), until >= 0, returns, every entry
\* ever scheduled with time <= until whose event is not cancelled has had its
\* action invoked, and this call invoked no action of an entry with
\* time > until.
C36_UntilInclusive ==
  [][(/\ pc' = "idle" /\ call'.ret \in {"empty", "limit"}
      /\ pc = "action" \/ call'.n = call.n + 1
      /\ until' >= 0) =>
       /\ \A i \in DOMAIN hist' :
            (hist'[i].time <= until' /\ ~events'[hist'[i].event].cancelled) =>
              hist'[i].status = "executed"
       /\ \A k \in (call'.exec0 + 1)..Len(executed') :
            executed'[k].time <= until'
    ]_vars

\* C37: every entry in the queue has time >= now().
C37_NoPendingEventInThePast ==
  \A x \in event_queue : x.time >= now

\* C37 witness: during an action at a positive time, another entry is
\* pending at exactly now().
C37_Witness ==
  /\ pc = "action" /\ now > 0
  /\ \E x \in event_queue : x.time = now

\* C35: with log_events set, the lines run() has written are, in order, one
\* per action it has invoked, each carrying the time of the entry executed
\* (so none for an entry whose event was cancelled, none for the entry
\* popped beyond `until`); with log_events clear it has written nothing.
C35_OneLogLinePerExecutedEvent ==
  IF log_events
  THEN /\ Len(cout) = Len(executed)
       /\ \A k \in 1..Len(cout) :
            cout[k] = LogLine(executed[k].time, executed[k].event)
       /\ Len(cout) = Cardinality({i \in DOMAIN hist :
                                    hist[i].status = "executed"})
  ELSE cout = << >>

\* C35 witness: a logging run() has returned after executing one entry,
\* skipping a cancelled one and popping one beyond `until`, with exactly one
\* line written, at a positive time.
C35_Witness ==
  /\ log_events /\ Returned
  /\ Len(cout) = 1 /\ cout[1].t > 0
  /\ \E i \in DOMAIN hist : hist[i].status = "skipped"
  /\ \E i \in DOMAIN hist : hist[i].status = "dropped"

\* C39: an Add(name, now(), value) made inside an action never throws.
C39_RecordingAtNowNeverFails ==
  sc_out.op = "AddTimed" => sc_out.thrown = {}

====
